---- MODULE Spec2Model ----
(***************************************************************************)
(* Per-sample quality control (QualityControl) and cross-sample            *)
(* aggregation (QCStats) of rnaseqlib/QualityControl.py.                   *)
(*                                                                         *)
(* Python values are encoded as follows.  None is NoneVal where an integer *)
(* count is expected.  A dict is a function whose domain is its key set.   *)
(* A list is a sequence.  A text cell of a delimited file is the sequence  *)
(* of its decimal digits.  A float ratio a / b is the pair <<a, b>>.       *)
(***************************************************************************)
EXTENDS Integers, Sequences, FiniteSets, TLC

VARIABLES qc, fs, outdir, last, stats, report,
          bam_in, mapped_out, fastq_in, first_n_in, profile_out

vars == <<qc, fs, outdir, last, stats, report,
          bam_in, mapped_out, fastq_in, first_n_in, profile_out>>

qcvars == <<qc, fs, outdir, last, stats, report>>
mappedvars == <<bam_in, mapped_out>>
profilevars == <<fastq_in, first_n_in, profile_out>>

(***************************************************************************)
(* Bounds of the model.                                                    *)
(***************************************************************************)
\* Largest number of entries of a read file handed to compute_qc.
MaxEntries == 10
\* Largest number of alignment records of a BAM file handed to get_num_mapped.
MaxRecords == 4
\* Largest number of entries of a read file handed to get_seq_cycle_profile.
MaxReads == 2
\* Largest length of a read handed to get_seq_cycle_profile.
MaxReadLen == 2
\* Largest number of samples handed to QCStats.
MaxSamples == 2

(***************************************************************************)
(* Encodings.                                                              *)
(***************************************************************************)
NoneVal == 0 - 1
NaN == 0 - 2

SeqsUpTo(S, n) == UNION {[1..k -> S] : k \in 0..n}

EmptyDict == [k \in {} |-> 0]

DictSet(d, k, v) == [x \in (DOMAIN d) \cup {k} |-> IF x = k THEN v ELSE d[x]]

\* defaultdict(int): a missing key reads as 0.
DefaultGet(d, k) == IF k \in DOMAIN d THEN d[k] ELSE 0

SetMax(S) == CHOOSE m \in S : \A x \in S : x <= m

(***************************************************************************)
(* Input files.                                                            *)
(***************************************************************************)
\* A read file that fastq_utils cannot parse, a BAM file pysam cannot open.
Malformed == [ok |-> FALSE, entries |-> <<>>]
Invalid == [ok |-> FALSE, refs |-> {}, recs |-> <<>>]

Bases == {"A", "N"}
\* The reads of 1 to n bases.
Reads(n) == SeqsUpTo(Bases, n) \ {<<>>}

\* A read file of n entries, each the one-base read "A".
NReads(n) == [ok |-> TRUE, entries |-> [i \in 1..n |-> <<"A">>]]

Bams(qnames, refs, n) ==
    {[ok |-> TRUE, refs |-> refs, recs |-> r] :
        r \in SeqsUpTo([qname : qnames, rname : refs], n)}

(***************************************************************************)
(* QualityControl.get_num_mapped, lines 59-70.                             *)
(***************************************************************************)
\* The dict bam_read_ids after the loop over the first k records.
RECURSIVE bam_read_ids(_, _)
bam_read_ids(recs, k) ==
    IF k = 0 THEN EmptyDict
    ELSE DictSet(bam_read_ids(recs, k - 1), recs[k].qname, 1)

\* A count that takes every record, duplicates of a read included.
get_num_mapped_dups(bam) == Len(bam.recs)

get_num_mapped(bam) == Cardinality(DOMAIN bam_read_ids(bam.recs, Len(bam.recs)))

(***************************************************************************)
(* QualityControl.get_num_reads, lines 47-56.                              *)
(***************************************************************************)
RECURSIVE count_entries(_, _)
count_entries(entries, k) ==
    IF k = 0 THEN 0 ELSE count_entries(entries, k - 1) + 1

get_num_reads(fastq) == count_entries(fastq.entries, Len(fastq.entries))

(***************************************************************************)
(* QualityControl.get_num_ribo, lines 81-98.  fetch raises ValueError for  *)
(* a reference the BAM header does not name.                               *)
(***************************************************************************)
RECURSIVE count_fetched(_, _, _)
count_fetched(recs, chr, k) ==
    IF k = 0 THEN 0
    ELSE count_fetched(recs, chr, k - 1) + (IF recs[k].rname = chr THEN 1 ELSE 0)

chr_ribo == "chrRibo"

get_num_ribo(bam) == count_fetched(bam.recs, chr_ribo, Len(bam.recs))

(***************************************************************************)
(* QualityControl.get_seq_cycle_profile, lines 150-185.                    *)
(***************************************************************************)
\* The number of entries the loop of lines 167-179 processes.
num_entries(entries, first_n_seqs) ==
    IF first_n_seqs # NoneVal /\ first_n_seqs < Len(entries)
    THEN first_n_seqs ELSE Len(entries)

\* Lines 174-178 on one read: counts after positions 0..n-1 of seq.
RECURSIVE count_read(_, _, _)
count_read(c, seq, n) ==
    IF n = 0 THEN c
    ELSE LET p == count_read(c, seq, n - 1)
             pos == n - 1
         IN [num_n_bases |-> IF seq[n] = "N"
                             THEN DictSet(p.num_n_bases, pos,
                                          DefaultGet(p.num_n_bases, pos) + 1)
                             ELSE p.num_n_bases,
             num_reads |-> DictSet(p.num_reads, pos,
                                   DefaultGet(p.num_reads, pos) + 1)]

\* Lines 167-179: counts after the first k entries.
RECURSIVE cycle_counts(_, _)
cycle_counts(entries, k) ==
    IF k = 0 THEN [num_n_bases |-> EmptyDict, num_reads |-> EmptyDict]
    ELSE count_read(cycle_counts(entries, k - 1), entries[k], Len(entries[k]))

\* Lines 181-185: range(max(keys)) stops one short of the largest key.
percent_n_range(num_reads) == 0 .. (SetMax(DOMAIN num_reads) - 1)

get_seq_cycle_profile(fastq, first_n_seqs) ==
    LET c == cycle_counts(fastq.entries, num_entries(fastq.entries, first_n_seqs))
    IN IF ~fastq.ok
       THEN [outcome |-> "raise", exc |-> "ReadFormatError", value |-> <<>>]
       ELSE IF DOMAIN c.num_reads = {}
       THEN [outcome |-> "raise", exc |-> "ValueError", value |-> <<>>]
       ELSE LET R == percent_n_range(c.num_reads)
            IN [outcome |-> "return", exc |-> "",
                value |-> [i \in 1..Cardinality(R) |->
                             <<DefaultGet(c.num_n_bases, i - 1),
                               c.num_reads[i - 1]>>]]

(***************************************************************************)
(* Python name resolution in QualityControl.py: a bare name is a local of  *)
(* the running function that is already bound, or a module global.         *)
(***************************************************************************)
ModuleGlobals == {"os", "sys", "time", "rnaseqlib", "fastq_utils", "utils",
                  "pandas", "pysam", "defaultdict", "QualityControl", "QCStats"}

\* "" when the name resolves, otherwise the exception the read raises.
name_error(name, locals, bound) ==
    IF name \in bound THEN ""
    ELSE IF name \in locals THEN "UnboundLocalError"
    ELSE IF name \in ModuleGlobals THEN ""
    ELSE "NameError"

(***************************************************************************)
(* Return values and the record of the last call.                          *)
(***************************************************************************)
PyNone == [type |-> "NoneType", path |-> <<>>]
PyStr(p) == [type |-> "str", path |-> p]
PyObj(t) == [type |-> t, path |-> <<>>]
NoRet == [type |-> "", path |-> <<>>]

Call(op, outcome, exc, ret, wrote) ==
    [op |-> op, outcome |-> outcome, exc |-> exc, ret |-> ret, wrote |-> wrote]

(***************************************************************************)
(* QualityControl.__init__, lines 20-44.                                   *)
(***************************************************************************)
Label == "s1"
qc_outdir == "qc"

QualityControl_init ==
    [qc_filename |-> <<>>,
     qc_header   |-> <<>>,
     qc_results  |-> EmptyDict,
     num_reads   |-> NoneVal,
     num_mapped  |-> NoneVal,
     num_ribo    |-> NoneVal]

(***************************************************************************)
(* The three sub-counts as methods: the object after the call and what the *)
(* call returned or raised.                                                *)
(***************************************************************************)
Returned(q, v) == [obj |-> q, outcome |-> "return", exc |-> "", val |-> v]
Raised(q, e) == [obj |-> q, outcome |-> "raise", exc |-> e, val |-> NoneVal]

\* Lines 47-56: get_fastq_entries fails on a malformed file; line 55 stores.
self_get_num_reads(q, fastq) ==
    IF ~fastq.ok THEN Raised(q, "ReadFormatError")
    ELSE Returned([q EXCEPT !.num_reads = get_num_reads(fastq)],
                  get_num_reads(fastq))

\* Lines 59-70: pysam.Samfile fails on an invalid file; line 69 stores.
self_get_num_mapped(q, bam) ==
    IF ~bam.ok THEN Raised(q, "AlignmentFormatError")
    ELSE Returned([q EXCEPT !.num_mapped = get_num_mapped(bam)],
                  get_num_mapped(bam))

\* Lines 81-98: nothing is stored on the object.
self_get_num_ribo(q, bam) ==
    IF ~bam.ok THEN Raised(q, "AlignmentFormatError")
    ELSE IF chr_ribo \notin bam.refs THEN Raised(q, "ReferenceNotFoundError")
    ELSE Returned(q, get_num_ribo(bam))

(***************************************************************************)
(* QualityControl.compute_qc, lines 105-121.                               *)
(***************************************************************************)
qc_headers == <<"num_reads", "num_mapped", "num_ribo">>

compute_qc(q, fastq, bam) ==
    LET r1 == self_get_num_reads(q, fastq)
        q1 == [r1.obj EXCEPT !.num_reads = r1.val]
        r2 == self_get_num_mapped(q1, bam)
        q2 == [r2.obj EXCEPT !.num_mapped = r2.val]
        r3 == self_get_num_ribo(q2, bam)
        q3 == [r3.obj EXCEPT !.num_ribo = r3.val]
        q4 == [q3 EXCEPT !.qc_header = qc_headers]
        q5 == [q4 EXCEPT !.qc_results =
                 DictSet(DictSet(DictSet(q4.qc_results,
                     "num_reads", q4.num_reads),
                     "num_mapped", q4.num_mapped),
                     "num_ribo", q4.num_ribo)]
    IN IF r1.outcome = "raise" THEN r1
       ELSE IF r2.outcome = "raise" THEN r2
       ELSE IF r3.outcome = "raise" THEN r3
       ELSE [obj |-> q5, outcome |-> "return", exc |-> "", val |-> NoneVal]

(***************************************************************************)
(* Delimited text: what DataFrame.to_csv writes for a cell and what a      *)
(* reader of the table gets back from it.                                  *)
(***************************************************************************)
RECURSIVE str_int(_)
str_int(n) == IF n < 10 THEN <<n>> ELSE Append(str_int(n \div 10), n % 10)

RECURSIVE int_str(_)
int_str(d) ==
    IF Len(d) = 1 THEN d[1]
    ELSE 10 * int_str(SubSeq(d, 1, Len(d) - 1)) + d[Len(d)]

\* None is written as the empty cell, which reads back as NaN.
write_cell(v) == IF v = NoneVal THEN <<>> ELSE str_int(v)
read_cell(c) == IF c = <<>> THEN NaN ELSE int_str(c)

NoFile == [exists |-> FALSE, header |-> <<>>, rows |-> <<>>]

\* An entry with num_reads and num_mapped exchanged.
qc_entry_swapped(q) ==
    [k \in {"num_reads", "num_mapped", "num_ribo"} |->
        IF k = "num_reads" THEN q.num_mapped
        ELSE IF k = "num_mapped" THEN q.num_reads ELSE q.num_ribo]

\* Lines 139-141.
qc_entry(q) ==
    [k \in {"num_reads", "num_mapped", "num_ribo"} |->
        IF k = "num_reads" THEN q.num_reads
        ELSE IF k = "num_mapped" THEN q.num_mapped ELSE q.num_ribo]

\* Lines 142-147: one row, columns in the order of cols, no index column.
to_csv(entry, cols) ==
    [exists |-> TRUE,
     header |-> cols,
     rows   |-> << [i \in 1..Len(cols) |-> write_cell(entry[cols[i]])] >>]

\* What a write that is killed part-way leaves: the file opened and empty,
\* or the header line without the data row.
Truncations(f) ==
    {[exists |-> TRUE, header |-> <<>>, rows |-> <<>>],
     [exists |-> TRUE, header |-> f.header, rows |-> <<>>]}

(***************************************************************************)
(* QualityControl.output_qc, lines 124-147.                                *)
(***************************************************************************)
QcPath == <<qc_outdir, Label, Label, ".qc.txt">>

\* An existence test that never finds the file.
isfile_never(f) == FALSE

isfile(f) == f.exists

output_qc(q, f) ==
    LET q1 == [q EXCEPT !.qc_filename = QcPath]
        \* Line 134-135 reads the bare name qc_filename, which output_qc
        \* never binds.
        e == name_error("qc_filename", {"self", "sample_outdir", "qc_headers",
                                         "qc_entry", "qc_df"},
                        {"self", "sample_outdir"})
    IN IF isfile(f)
       THEN IF e # ""
            THEN [obj |-> q1, fs |-> f, outcome |-> "raise", exc |-> e,
                  ret |-> NoRet, wrote |-> FALSE]
            ELSE [obj |-> q1, fs |-> f, outcome |-> "return", exc |-> "",
                  ret |-> PyNone, wrote |-> FALSE]
       ELSE [obj |-> q1, fs |-> to_csv(qc_entry(q1), qc_headers),
             outcome |-> "return", exc |-> "", ret |-> PyNone, wrote |-> TRUE]

(***************************************************************************)
(* The samples QCStats is given.  "s1" is the sample whose QualityControl  *)
(* object the model runs; "s2" is a sample whose metrics were never        *)
(* computed and "s3" one whose metrics were.                               *)
(***************************************************************************)
RiboRefs == {"chr1", chr_ribo}

SampleLabels == {"s1", "s2", "s3"}

ComputedElsewhere ==
    compute_qc(QualityControl_init, NReads(2),
               [ok |-> TRUE, refs |-> RiboRefs,
                recs |-> << [qname |-> "A", rname |-> chr_ribo] >>]).obj

Sample(l) ==
    LET o == IF l = Label THEN qc
             ELSE IF l = "s2" THEN QualityControl_init
             ELSE ComputedElsewhere
    IN [label |-> l, qc_header |-> o.qc_header, qc_results |-> o.qc_results]

Samples(ls) == [i \in 1..Len(ls) |-> Sample(ls[i])]

(***************************************************************************)
(* QCStats.__init__, lines 192-194.                                        *)
(***************************************************************************)
PyList(rows) == [type |-> "list", columns |-> {}, rows |-> rows]

\* pandas.DataFrame(list of dicts): the columns are the union of the keys.
DataFrame(rows) ==
    [type |-> "DataFrame",
     columns |-> UNION {DOMAIN rows[i] : i \in 1..Len(rows)},
     rows |-> rows]

QCStats_init(ls) == [samples |-> ls, qc_stats |-> PyList(<<>>)]

(***************************************************************************)
(* QCStats.compile_qc, lines 206-225.                                      *)
(***************************************************************************)
sample_header == "sample"

compile_locals == {"self", "samples", "sample_header", "qc_header", "sample",
                   "qc_entry"}

\* Lines 218-223 after k iterations: qc_entry is read (line 220) before
\* line 222 binds it; the dict appended by line 223 is the one line 220 of
\* the next iteration writes to.
RECURSIVE compile_loop(_, _, _)
compile_loop(samples, qc_stats, k) ==
    IF k = 0
    THEN [exc |-> "", bound |-> {"self", "samples", "sample_header", "qc_header"},
          qc_stats |-> qc_stats]
    ELSE LET p == compile_loop(samples, qc_stats, k - 1)
             e == name_error("qc_entry", compile_locals, p.bound)
             n == Len(p.qc_stats)
             labelled == [p.qc_stats EXCEPT
                            ![n] = DictSet(p.qc_stats[n], sample_header,
                                           samples[k].label)]
         IN IF p.exc # "" THEN p
            ELSE IF e # "" THEN [p EXCEPT !.exc = e]
            ELSE [exc |-> "",
                  bound |-> p.bound \cup {"sample", "qc_entry"},
                  qc_stats |-> Append(labelled, samples[k].qc_results)]

\* The loop as the comments of lines 219-222 describe it: copy the sample's
\* results, then record its name in the copy.
RECURSIVE compile_rows(_, _)
compile_rows(samples, k) ==
    IF k = 0 THEN <<>>
    ELSE Append(compile_rows(samples, k - 1),
                DictSet(samples[k].qc_results, sample_header, samples[k].label))

\* compile_qc with the loop as described and the DataFrame built from the rows.
compile_qc_joined(st, samples) ==
    IF Len(samples) = 0
    THEN [stats |-> st, outcome |-> "raise", exc |-> "SystemExit", ret |-> NoRet]
    ELSE [stats |-> [st EXCEPT !.qc_stats =
                       DataFrame(compile_rows(samples, Len(samples)))],
          outcome |-> "return", exc |-> "", ret |-> PyObj("DataFrame")]

\* compile_qc without the test of lines 212-214: line 217 indexes samples[0].
compile_qc_unchecked(st, samples) ==
    IF Len(samples) = 0
    THEN [stats |-> st, outcome |-> "raise", exc |-> "IndexError", ret |-> NoRet]
    ELSE [stats |-> st, outcome |-> "raise", exc |-> "UnboundLocalError",
          ret |-> NoRet]

compile_qc(st, samples) ==
    LET l == compile_loop(samples, st.qc_stats.rows, Len(samples))
        st1 == [st EXCEPT !.qc_stats = PyList(l.qc_stats)]
        \* Line 224 reads the bare name qc_stats.
        e == name_error("qc_stats", compile_locals, l.bound)
    IN IF Len(samples) = 0
       THEN [stats |-> st, outcome |-> "raise", exc |-> "SystemExit",
             ret |-> NoRet]
       ELSE IF l.exc # ""
       THEN [stats |-> st1, outcome |-> "raise", exc |-> l.exc, ret |-> NoRet]
       ELSE IF e # ""
       THEN [stats |-> st1, outcome |-> "raise", exc |-> e, ret |-> NoRet]
       ELSE [stats |-> [st EXCEPT !.qc_stats = DataFrame(l.qc_stats)],
             outcome |-> "return", exc |-> "", ret |-> PyObj("DataFrame")]

(***************************************************************************)
(* QCStats.to_csv, lines 228-231, and QCStats.output_qc, lines 197-203.    *)
(***************************************************************************)
NoReport == [exists |-> FALSE, table |-> PyList(<<>>)]

\* A list has no to_csv attribute.
QCStats_to_csv(st, rep) ==
    IF st.qc_stats.type # "DataFrame"
    THEN [report |-> rep, outcome |-> "raise", exc |-> "AttributeError",
          ret |-> NoRet]
    ELSE [report |-> [exists |-> TRUE, table |-> st.qc_stats],
          outcome |-> "return", exc |-> "", ret |-> PyNone]

QCStats_output_qc(st, rep) ==
    LET c == compile_qc(st, Samples(st.samples))
        w == QCStats_to_csv(c.stats, rep)
    IN IF c.outcome = "raise"
       THEN [stats |-> c.stats, report |-> rep, outcome |-> "raise",
             exc |-> c.exc, ret |-> NoRet]
       ELSE [stats |-> c.stats, report |-> w.report, outcome |-> w.outcome,
             exc |-> w.exc, ret |-> w.ret]

(***************************************************************************)
(* Inputs of the state machine.                                            *)
(***************************************************************************)
ComputeFastqs == {Malformed, NReads(1), NReads(MaxEntries)}

\* A BAM file without the ribosomal contig, an empty one with it, and one
\* with two alignments of read A on the ribosomal contig and one of read B.
BamNoRibo ==
    [ok |-> TRUE, refs |-> {"chr1"},
     recs |-> << [qname |-> "A", rname |-> "chr1"] >>]
BamEmpty == [ok |-> TRUE, refs |-> RiboRefs, recs |-> <<>>]
BamRibo ==
    [ok |-> TRUE, refs |-> RiboRefs,
     recs |-> << [qname |-> "A", rname |-> chr_ribo],
                 [qname |-> "A", rname |-> chr_ribo],
                 [qname |-> "B", rname |-> "chr1"] >>]

ComputeBams == {Invalid, BamNoRibo, BamEmpty, BamRibo}

SampleLists == SeqsUpTo(SampleLabels, MaxSamples)

\* A combined report left at the output path before this run.
PriorReport == [exists |-> TRUE, table |-> DataFrame(<<>>)]

\* The process that ran the last call is still running.
Running == last.outcome # "killed"

(***************************************************************************)
(* Initial states.                                                         *)
(***************************************************************************)
MappedIdle ==
    /\ bam_in = Invalid
    /\ mapped_out = NoneVal

NotRun == [outcome |-> "", exc |-> "", value |-> <<>>]

ProfileIdle ==
    /\ fastq_in = Malformed
    /\ first_n_in = NoneVal
    /\ profile_out = NotRun

QcIdle ==
    /\ qc = QualityControl_init
    /\ fs = NoFile
    /\ outdir = FALSE
    /\ last = Call("__init__", "return", "", PyNone, FALSE)
    /\ stats = QCStats_init(<<>>)
    /\ report = NoReport

Init == QcIdle /\ MappedIdle /\ ProfileIdle

(***************************************************************************)
(* QualityControl: one sample's object and its QC file.                    *)
(***************************************************************************)
\* A new run of the pipeline: the objects are built again, the files stay.
NewRun ==
    /\ qc' = QualityControl_init
    /\ stats' = QCStats_init(<<>>)
    /\ last' = Call("__init__", "return", "", PyNone, FALSE)
    /\ UNCHANGED <<fs, outdir, report, mappedvars, profilevars>>

GetNumReads ==
    /\ Running
    /\ \E fastq \in ComputeFastqs :
          LET r == self_get_num_reads(qc, fastq)
          IN /\ qc' = r.obj
             /\ last' = Call("get_num_reads", r.outcome, r.exc,
                             IF r.outcome = "return" THEN PyObj("int") ELSE NoRet,
                             FALSE)
    /\ UNCHANGED <<fs, outdir, stats, report, mappedvars, profilevars>>

GetNumMapped ==
    /\ Running
    /\ \E bam \in ComputeBams :
          LET r == self_get_num_mapped(qc, bam)
          IN /\ qc' = r.obj
             /\ last' = Call("get_num_mapped", r.outcome, r.exc,
                             IF r.outcome = "return" THEN PyObj("int") ELSE NoRet,
                             FALSE)
    /\ UNCHANGED <<fs, outdir, stats, report, mappedvars, profilevars>>

GetNumRibo ==
    /\ Running
    /\ \E bam \in ComputeBams :
          LET r == self_get_num_ribo(qc, bam)
          IN /\ qc' = r.obj
             /\ last' = Call("get_num_ribo", r.outcome, r.exc,
                             IF r.outcome = "return" THEN PyObj("int") ELSE NoRet,
                             FALSE)
    /\ UNCHANGED <<fs, outdir, stats, report, mappedvars, profilevars>>

\* Lines 101-102.
GetQc ==
    /\ Running
    /\ last' = Call("get_qc", "return", "", PyObj("dict"), FALSE)
    /\ UNCHANGED <<qc, fs, outdir, stats, report, mappedvars, profilevars>>

ComputeQc ==
    /\ Running
    /\ \E fastq \in ComputeFastqs, bam \in ComputeBams :
          LET r == compute_qc(qc, fastq, bam)
          IN /\ qc' = r.obj
             /\ last' = Call("compute_qc", r.outcome, r.exc,
                             IF r.outcome = "return" THEN PyObj("dict") ELSE NoRet,
                             FALSE)
    /\ UNCHANGED <<fs, outdir, stats, report, mappedvars, profilevars>>

OutputQc ==
    /\ Running
    /\ LET r == output_qc(qc, fs)
       IN /\ qc' = r.obj
          /\ fs' = r.fs
          /\ outdir' = TRUE
          /\ last' = Call("output_qc", r.outcome, r.exc, r.ret, r.wrote)
    /\ UNCHANGED <<stats, report, mappedvars, profilevars>>

\* The process is killed inside to_csv of line 144.
OutputQcKilled ==
    /\ Running
    /\ LET r == output_qc(qc, fs)
       IN /\ r.wrote
          /\ qc' = r.obj
          /\ fs' \in Truncations(r.fs)
          /\ outdir' = TRUE
          /\ last' = Call("output_qc", "killed", "", NoRet, FALSE)
    /\ UNCHANGED <<stats, report, mappedvars, profilevars>>

Next ==
    \/ NewRun
    \/ GetNumReads
    \/ GetNumMapped
    \/ GetNumRibo
    \/ GetQc
    \/ ComputeQc
    \/ OutputQc
    \/ OutputQcKilled

Spec == Init /\ [][Next]_vars

(***************************************************************************)
(* QCStats: the aggregator over samples whose metrics change under it.     *)
(***************************************************************************)
NewQCStats ==
    /\ Running
    /\ \E ls \in SampleLists : stats' = QCStats_init(ls)
    /\ last' = Call("QCStats.__init__", "return", "", PyNone, FALSE)
    /\ UNCHANGED <<qc, fs, outdir, report, mappedvars, profilevars>>

\* compile_qc on the object's own samples, as line 202 calls it.
CompileQc ==
    /\ Running
    /\ LET r == compile_qc(stats, Samples(stats.samples))
       IN /\ stats' = r.stats
          /\ last' = Call("compile_qc", r.outcome, r.exc, r.ret, FALSE)
    /\ UNCHANGED <<qc, fs, outdir, report, mappedvars, profilevars>>

StatsToCsv ==
    /\ Running
    /\ LET r == QCStats_to_csv(stats, report)
       IN /\ report' = r.report
          /\ last' = Call("QCStats.to_csv", r.outcome, r.exc, r.ret,
                          r.outcome = "return")
    /\ UNCHANGED <<qc, fs, outdir, stats, mappedvars, profilevars>>

StatsOutputQc ==
    /\ Running
    /\ LET r == QCStats_output_qc(stats, report)
       IN /\ stats' = r.stats
          /\ report' = r.report
          /\ last' = Call("QCStats.output_qc", r.outcome, r.exc, r.ret,
                          r.outcome = "return")
    /\ UNCHANGED <<qc, fs, outdir, mappedvars, profilevars>>

InitStats ==
    /\ qc = QualityControl_init
    /\ fs = NoFile
    /\ outdir = FALSE
    /\ last = Call("__init__", "return", "", PyNone, FALSE)
    /\ stats = QCStats_init(<<>>)
    /\ report \in {NoReport, PriorReport}
    /\ MappedIdle
    /\ ProfileIdle

NextStats ==
    \/ ComputeQc
    \/ NewQCStats
    \/ CompileQc
    \/ StatsToCsv
    \/ StatsOutputQc

SpecStats == InitStats /\ [][NextStats]_vars

(***************************************************************************)
(* get_num_mapped on every BAM file of the bound.                          *)
(***************************************************************************)
MappedQNames == {"A", "a", "B", "C"}

InitMapped ==
    /\ QcIdle
    /\ ProfileIdle
    /\ bam_in \in Bams(MappedQNames, {"chr1"}, MaxRecords)
    /\ mapped_out = NoneVal

RunGetNumMapped ==
    /\ mapped_out = NoneVal
    /\ mapped_out' = get_num_mapped(bam_in)
    /\ UNCHANGED <<qcvars, bam_in, profilevars>>

SpecMapped == InitMapped /\ [][RunGetNumMapped]_vars

(***************************************************************************)
(* get_seq_cycle_profile on every read file of the bound.                  *)
(***************************************************************************)
InitProfile ==
    /\ QcIdle
    /\ MappedIdle
    /\ fastq_in \in {Malformed} \cup
                    {[ok |-> TRUE, entries |-> e] :
                        e \in SeqsUpTo(Reads(MaxReadLen), MaxReads)}
    /\ first_n_in \in {NoneVal} \cup (0..MaxReads)
    /\ profile_out = NotRun

RunGetSeqCycleProfile ==
    /\ profile_out = NotRun
    /\ profile_out' = get_seq_cycle_profile(fastq_in, first_n_in)
    /\ UNCHANGED <<qcvars, mappedvars, fastq_in, first_n_in>>

SpecProfile == InitProfile /\ [][RunGetSeqCycleProfile]_vars

(***************************************************************************)
(* Properties.                                                             *)
(***************************************************************************)
Range(f) == {f[i] : i \in DOMAIN f}

AllComputed(ls) == \A i \in 1..Len(ls) : Sample(ls[i]).qc_header # <<>>

\* C1: compile_qc on a non-empty sequence of samples whose metrics have been
\* computed returns a table of one row per sample, in input order, whose
\* "sample" column is the sample's label and whose metric columns are the
\* sample's own metric values.
C1_CompileRowsInOrder ==
    (/\ last.op = "compile_qc"
     /\ Len(stats.samples) > 0
     /\ AllComputed(stats.samples))
    => /\ last.outcome = "return"
       /\ stats.qc_stats.type = "DataFrame"
       /\ Len(stats.qc_stats.rows) = Len(stats.samples)
       /\ \A i \in 1..Len(stats.samples) :
             LET smp == Sample(stats.samples[i])
                 row == stats.qc_stats.rows[i]
             IN /\ sample_header \in DOMAIN row
                /\ row[sample_header] = smp.label
                /\ \A m \in Range(smp.qc_header) :
                      m \in DOMAIN row /\ row[m] = smp.qc_results[m]

\* C2: QCStats.output_qc on an empty sample sequence ends in the fatal exit
\* of compile_qc and leaves the report at the output path as it was.
C2_EmptyIsFatal ==
    [][(last'.op = "QCStats.output_qc" /\ stats.samples = <<>>)
       => (/\ last'.outcome = "raise"
           /\ last'.exc = "SystemExit"
           /\ ~last'.wrote
           /\ report' = report)]_vars

C2_Witness ==
    /\ last.op = "QCStats.output_qc"
    /\ stats.samples = <<>>
    /\ last.exc = "SystemExit"
    /\ report = NoReport

\* C3: get_num_mapped returns the number of distinct read identifiers of
\* the records, compared exactly; it is at most the number of records and
\* equals it exactly when no two records share an identifier.
C3_MappedIsDistinctIds ==
    mapped_out # NoneVal =>
        LET recs == bam_in.recs
            ids == {recs[i].qname : i \in 1..Len(recs)}
            unique == \A i, j \in 1..Len(recs) :
                         recs[i].qname = recs[j].qname => i = j
        IN /\ mapped_out = Cardinality(ids)
           /\ mapped_out <= Len(recs)
           /\ (mapped_out = Len(recs)) <=> unique

C3_Witness ==
    /\ Len(bam_in.recs) = 4
    /\ [i \in 1..4 |-> bam_in.recs[i].qname] = <<"A", "A", "B", "C">>
    /\ mapped_out = 3

\* C4: output_qc on a sample whose QC file exists returns normally and
\* leaves the file as it was.
C4_SkipReturnsNormally ==
    [][(last'.op = "output_qc" /\ fs.exists)
       => (last'.outcome = "return" /\ fs' = fs)]_vars

\* C5: output_qc returns the path when it wrote the file and a value
\* other than the path when it skipped.
C5_ReturnTellsWritten ==
    (last.op = "output_qc" /\ last.outcome # "killed")
    => /\ last.outcome = "return"
       /\ last.wrote <=> (last.ret = PyStr(qc.qc_filename))

RoundTrip(f, mapping) ==
    /\ f.exists
    /\ f.header = <<"num_reads", "num_mapped", "num_ribo">>
    /\ Len(f.rows) = 1
    /\ Len(f.rows[1]) = Len(f.header)
    /\ DOMAIN mapping = Range(f.header)
    /\ \A i \in 1..Len(f.header) :
          read_cell(f.rows[1][i]) = mapping[f.header[i]]

\* C6: output_qc right after a compute_qc that returned, with no QC file
\* in place, writes the header num_reads, num_mapped, num_ribo and one data
\* row that reads back as the values of the sample's metric mapping.
C6_RoundTrip ==
    [][(/\ last.op = "compute_qc"
        /\ last.outcome = "return"
        /\ last'.op = "output_qc"
        /\ last'.wrote)
       => RoundTrip(fs', qc'.qc_results)]_vars

C6_Witness ==
    /\ last.op = "output_qc"
    /\ last.wrote
    /\ DOMAIN qc.qc_results # {}
    /\ qc.qc_results["num_reads"] = MaxEntries
    /\ qc.qc_results["num_mapped"] = 2
    /\ RoundTrip(fs, qc.qc_results)

\* The entries get_seq_cycle_profile looks at.
Considered ==
    SubSeq(fastq_in.entries, 1,
           IF first_n_in # NoneVal /\ first_n_in < Len(fastq_in.entries)
           THEN first_n_in ELSE Len(fastq_in.entries))

\* C7: on a non-empty sequence of considered reads get_seq_cycle_profile
\* returns one ratio per position 0..L-1, L the longest considered read:
\* reads with "N" at the position over reads longer than the position,
\* each ratio in [0, 1].
C7_ProfilePerPosition ==
    (profile_out # NotRun /\ fastq_in.ok /\ Len(Considered) > 0)
    => LET L == SetMax({Len(Considered[i]) : i \in 1..Len(Considered)})
           reach(p) == {i \in 1..Len(Considered) : Len(Considered[i]) > p}
           withN(p) == {i \in reach(p) : Considered[i][p + 1] = "N"}
       IN /\ profile_out.outcome = "return"
          /\ Len(profile_out.value) = L
          /\ \A p \in 0..(L - 1) :
                /\ profile_out.value[p + 1] =
                      <<Cardinality(withN(p)), Cardinality(reach(p))>>
                /\ 0 <= profile_out.value[p + 1][1]
                /\ profile_out.value[p + 1][1] <= profile_out.value[p + 1][2]
                /\ profile_out.value[p + 1][2] > 0

\* C8: a compute_qc that raises leaves the values get_qc returns and the
\* values output_qc writes as they were before the call.
C8_ComputeAllOrNothing ==
    [][(last'.op = "compute_qc" /\ last'.outcome = "raise")
       => (/\ qc'.qc_results = qc.qc_results
           /\ qc_entry(qc') = qc_entry(qc))]_vars

CommonHeader(ls) ==
    {m \in Range(Sample(ls[1]).qc_header) :
        \A i \in 1..Len(ls) : m \in Range(Sample(ls[i]).qc_header)}

Truncated(f) == f.exists /\ f.rows = <<>>

\* C10: once a killed write has left a truncated QC file, no later call, in
\* this run or in a later one, writes the file: every output_qc finds it and
\* skips, so the truncated file stays.
C10_TruncatedPersists ==
    [][Truncated(fs) => (fs' = fs /\ ~last'.wrote)]_vars

C10_Witness ==
    /\ Truncated(fs)
    /\ fs.header = qc_headers
    /\ last.op = "output_qc"
    /\ last.outcome = "raise"
    /\ ~last.wrote
    /\ qc.qc_results # EmptyDict

====
